---- MODULE Spec2Model ----
(***************************************************************************)
(* Model of instances_generator.py: the sizing estimator                   *)
(* (calculateGraphDensity, calculateMaxNumberOfDemands), the parameter     *)
(* validation, the sweep over (percentage, topology, S, spread) and the    *)
(* demand allocation loop that writes one instance file per combination.   *)
(*                                                                         *)
(* Python floats are IEEE-754 binary64.  The estimator's arithmetic is     *)
(* modelled bit for bit: a float is a sign s, a 53-bit significand m and a *)
(* binary exponent e (value s * m * 2^e), and every operation rounds to    *)
(* nearest, ties to even, as the hardware does.  A significand does not    *)
(* fit a machine integer of the checker, so it is kept as a sequence of    *)
(* 15-bit limbs, least significant first.                                  *)
(***************************************************************************)
EXTENDS Integers, Sequences, FiniteSets, TLC

\* ------------------------------------------------------------------------
\* Natural numbers as sequences of limbs
\* ------------------------------------------------------------------------

\* A limb holds 15 bits; one short multiplication or division shifts by at
\* most 14 bits, so that limb * 2^14 stays below 2^31.
Base == 2 ^ 15

Abs(k) == IF k < 0 THEN -k ELSE k

Sign(k) == IF k < 0 THEN -1 ELSE 1

Max(a, b) == IF a >= b THEN a ELSE b

Min(a, b) == IF a <= b THEN a ELSE b

RECURSIVE BitLen(_)
\* Number of binary digits of a non-negative integer.
BitLen(k) == IF k = 0 THEN 0 ELSE 1 + BitLen(k \div 2)

RECURSIVE NNorm(_)
\* Drop the most significant limbs that are zero.
NNorm(a) ==
  IF a = <<>> \/ a[Len(a)] # 0 THEN a ELSE NNorm(SubSeq(a, 1, Len(a) - 1))

NFromInt(k) ==
  NNorm(<<k % Base, (k \div Base) % Base, k \div (Base * Base)>>)

RECURSIVE NToInt(_)
NToInt(a) == IF a = <<>> THEN 0 ELSE a[1] + Base * NToInt(Tail(a))

NBitLen(a) ==
  IF a = <<>> THEN 0 ELSE (Len(a) - 1) * 15 + BitLen(a[Len(a)])

RECURSIVE NMulRec(_, _, _, _)
NMulRec(a, k, i, carry) ==
  IF i > Len(a) THEN (IF carry = 0 THEN <<>> ELSE <<carry>>)
  ELSE LET t == a[i] * k + carry
       IN  <<t % Base>> \o NMulRec(a, k, i + 1, t \div Base)

\* a * k for 0 < k < Base
NMulSmall(a, k) == NMulRec(a, k, 1, 0)

RECURSIVE NDivRec(_, _, _, _)
NDivRec(a, k, i, rem) ==
  IF i = 0 THEN [q |-> <<>>, r |-> rem]
  ELSE LET t    == rem * Base + a[i]
           rest == NDivRec(a, k, i - 1, t % k)
       IN  [q |-> Append(rest.q, t \div k), r |-> rest.r]

\* Quotient and remainder of a by k, 0 < k < Base
NDivSmall(a, k) ==
  LET d == NDivRec(a, k, Len(a), 0) IN [q |-> NNorm(d.q), r |-> d.r]

RECURSIVE NShl(_, _)
\* a * 2^r
NShl(a, r) ==
  IF r = 0 THEN a
  ELSE LET c == Min(r, 14) IN NShl(NMulSmall(a, 2 ^ c), r - c)

RECURSIVE NShr(_, _, _)
\* a \div 2^r, and whether a non-zero bit was dropped (or sticky already)
NShr(a, r, sticky) ==
  IF r = 0 THEN [q |-> a, st |-> sticky]
  ELSE LET c == Min(r, 14)
           d == NDivSmall(a, 2 ^ c)
       IN  NShr(d.q, r - c, sticky \/ d.r # 0)

RECURSIVE NInc(_)
NInc(a) ==
  IF a = <<>> THEN <<1>>
  ELSE IF a[1] < Base - 1 THEN [a EXCEPT ![1] = @ + 1]
  ELSE <<0>> \o NInc(Tail(a))

\* ------------------------------------------------------------------------
\* IEEE-754 binary64 arithmetic (the subset the program uses: float*int,
\* float/int, int(), math.ceil, on values far from overflow and underflow)
\* ------------------------------------------------------------------------

\* Width of a binary64 significand.
Precision == 53

FZero == [s |-> 1, m |-> <<>>, e |-> 0]

\* Round the exact value s * a * 2^e (plus a non-zero tail below the last
\* bit when sticky) to binary64: nearest, ties to even.
RoundFloat(s, a, e, sticky) ==
  LET n == NBitLen(a)
  IN  IF n = 0 THEN [FZero EXCEPT !.s = s]
      ELSE IF n <= Precision
        THEN [s |-> s, m |-> NShl(a, Precision - n), e |-> e - (Precision - n)]
      ELSE LET r     == n - Precision
               low   == NShr(a, r - 1, sticky)
               last  == NDivSmall(low.q, 2)
               kept  == last.q
               up    == last.r = 1 /\ (low.st \/ kept[1] % 2 = 1)
               inc   == NInc(kept)
           IN  IF ~up THEN [s |-> s, m |-> kept, e |-> e + r]
               ELSE IF NBitLen(inc) = Precision
                 THEN [s |-> s, m |-> inc, e |-> e + r]
               ELSE [s |-> s, m |-> NDivSmall(inc, 2).q, e |-> e + r + 1]

\* float(k) for a Python int k (small, hence exact).
FromInt(k) == RoundFloat(Sign(k), NFromInt(Abs(k)), 0, FALSE)

\* x * float(k)
FMulInt(x, k) ==
  IF k = 0 \/ x.m = <<>> THEN [FZero EXCEPT !.s = x.s * Sign(k)]
  ELSE RoundFloat(x.s * Sign(k), NMulSmall(x.m, Abs(k)), x.e, FALSE)

\* x / float(k), k # 0 (the caller raises ZeroDivisionError for k = 0)
FDivInt(x, k) ==
  IF x.m = <<>> THEN [FZero EXCEPT !.s = x.s * Sign(k)]
  ELSE LET extra == BitLen(Abs(k)) + 2
           d     == NDivSmall(NShl(x.m, extra), Abs(k))
       IN  RoundFloat(x.s * Sign(k), d.q, x.e - extra, d.r # 0)

\* The integer part of |x| and whether |x| has a fractional part.
FParts(x) ==
  IF x.m = <<>> THEN [int |-> 0, frac |-> FALSE]
  ELSE IF x.e >= 0 THEN [int |-> NToInt(NShl(x.m, x.e)), frac |-> FALSE]
  ELSE LET d == NShr(x.m, -x.e, FALSE)
       IN  [int |-> NToInt(d.q), frac |-> d.st]

\* int(x): truncation toward zero.
FToInt(x) == x.s * FParts(x).int

\* math.ceil(x)
FCeil(x) ==
  LET p == FParts(x)
  IN  IF x.s = 1 THEN p.int + (IF p.frac THEN 1 ELSE 0) ELSE -p.int

\* float of the decimal literal num/den: the nearest binary64.
FDecimal(num, den) == FDivInt(FromInt(num), den)

\* ------------------------------------------------------------------------
\* Sizing estimator
\* ------------------------------------------------------------------------

\* calculateGraphDensity raises ZeroDivisionError when n*(n-1) = 0.
DensityRaises(n) == n * (n - 1) = 0

\* calculateGraphDensity: 2.*m/(n*(n-1))
calculateGraphDensity(n, m) == FDivInt(FMulInt(FromInt(2), m), n * (n - 1))

\* calculateMaxNumberOfDemands: int((n-1.) * d * S/(max_sd))
calculateMaxNumberOfDemands(n, m, S, max_sd) ==
  LET d == calculateGraphDensity(n, m)
  IN  FToInt(FDivInt(FMulInt(FMulInt(d, n - 1), S), max_sd))

\* nT = int(max(1, nT * args.density)); the density is the float parsed from
\* the decimal dens.num/dens.den.
Budget(est, dens) ==
  LET x == FMulInt(FDecimal(dens.num, dens.den), est)
  IN  IF x.s = 1 /\ FParts(x).int >= 1 THEN FToInt(x) ELSE 1

\* max_sd = math.ceil(percentage * S)
MaxSd(p, slots) == FCeil(FMulInt(FDecimal(p.num, p.den), slots))

\* ------------------------------------------------------------------------
\* Command line, parameter validation
\* ------------------------------------------------------------------------

\* A decimal command-line value num/den (den > 0).
Rat(a, b) == [num |-> a, den |-> b]

\* if not 0 < args.density < 10: error(...)
DensityValid(d) == 0 < d.num /\ d.num < 10 * d.den

\* [s for s in set(args.slots) if s > 0]
SlotValid(k) == k > 0

\* [p for p in set(args.percents) if p > 0 and p <= 1]
PercentValid(p) == p.num > 0 /\ p.num <= p.den

\* Variant: the upper end of (0, 1] is not checked.
SpreadValidNoUpper(q) == 0 < q.num

\* [sp for sp in set(args.spread) if 0 < sp <= 1]
SpreadValid(q) == 0 < q.num /\ q.num <= q.den

Range(q) == {q[i] : i \in 1..Len(q)}

\* The lists a set of values can be iterated as: each value once, in an
\* order the hash table fixes (any order, as far as the program knows).
Orders(V) ==
  {q \in [1..Cardinality(V) -> V] : \A i, j \in 1..Cardinality(V) : i # j => q[i] # q[j]}

\* [(S, sp) for S in avaliable_S for sp in spreads]
Combos(ss, sps) ==
  [k \in 1..(Len(ss) * Len(sps)) |->
     [S |-> ss[((k - 1) \div Len(sps)) + 1], sp |-> sps[((k - 1) % Len(sps)) + 1]]]

\* "{}".format(round(percentage, 2) * 100): the percentage in hundredths,
\* rounded half to even.
PercentageDir(p) ==
  LET q == (100 * p.num) \div p.den
      r == (100 * p.num) % p.den
  IN  IF 2 * r < p.den THEN q
      ELSE IF 2 * r > p.den THEN q + 1
      ELSE IF q % 2 = 0 THEN q ELSE q + 1

\* instances_dir, percentage_dir = instances_dir/<percentage>, and
\* top_dir = percentage_dir/<top_name>
Directory(pdir, top) == [dir |-> pdir, top |-> top]

InstancesDir == Directory(-1, "")

\* os.path.join(top_dir, instance_fname.format(top_name, S, max_sd, nT, str(sp)))
InstanceFile(p, top, slots, msd, budget, q) ==
  [dir |-> PercentageDir(p), top |-> top, S |-> slots, max_sd |-> msd,
   nT |-> budget, sp |-> q]

\* ------------------------------------------------------------------------
\* One iteration of the allocation loop: the values the random source can
\* return, and what the iteration makes of them
\* ------------------------------------------------------------------------

\* Variant: spInv is compared with 0.001, the "- 1" is lost.
FanOutTakenAlways(q) == 1000 * q.den > q.num

\* spInv = math.pow(sp, -1); if spInv - 1 > 0.001  (sp = q.num/q.den)
FanOutTaken(q) == 1000 * (q.den - q.num) > q.num

CeilDiv(a, b) == (a + b - 1) \div b

\* Variant: math.floor instead of math.ceil.
FanOutCandidatesFloor(q) == (q.den \div (2 * q.num))..((2 * q.den) \div q.num)

\* math.ceil(random.uniform(0.5*spInv, 2*spInv)): every integer from
\* ceil(0.5*spInv) to ceil(2*spInv)
FanOutCandidates(q) == CeilDiv(q.den, 2 * q.num)..CeilDiv(2 * q.den, q.num)

\* Variant: the min with remainingT is lost.
ClampFanOutNodesOnly(remaining, cand, nodes) == Min(nodes - 1, cand)

\* nDst = min(remainingT, nDst); nDst = min(n-1, nDst)
ClampFanOut(remaining, cand, nodes) == Min(nodes - 1, Min(remaining, cand))

\* Variant: the budget counts demands, not destinations.
DecrementByOne(remaining, used) == remaining - 1

\* remainingT = remainingT - nDst
Decrement(remaining, used) == remaining - used

\* Variant: the source is not excluded.
PopulationWithSource(nodes, source) == 0..(nodes - 1)

\* [dst for dst in range(n) if dst != src]
Population(nodes, source) == (0..(nodes - 1)) \ {source}

\* random.sample(population, k): k distinct elements, in any order
Samples(pop, k) ==
  {q \in [1..k -> pop] : \A i, j \in 1..k : i # j => q[i] # q[j]}

\* random.randint(math.floor(max_sd/2), max_sd)
SlotDraws(msd) == (msd \div 2)..msd

\* s = max(1, s)
SlotOf(raw) == Max(1, raw)

\* Lines of the instance file.  A line is its kind and its tab-separated
\* integer fields.
CommentLine(k, v) == [kind |-> "comment", fields |-> <<k, v>>]

\* the six out.write('# ...') calls; the third carries the seed
Header(seed) ==
  <<CommentLine(1, 0), CommentLine(2, 0), CommentLine(3, seed),
    CommentLine(4, 0), CommentLine(5, 0), CommentLine(6, 0)>>

\* '{src}{sep}{nDst}{sep}{dst}{sep}{s}'
DemandLine(source, count, dests, slots) ==
  [kind |-> "demand", fields |-> <<source, count>> \o dests \o <<slots>>]

\* '{}{}{}'.format(S, sep, nD)
FirstLine(slots, count) == [kind |-> "first", fields |-> <<slots, count>>]

\* Variant: the first data line is written after the demand lines.
FileBodyCountLast(slots, count, body) == body \o <<FirstLine(slots, count)>>

\* out.write(first line); for line in lines: out.write(line)
FileBody(slots, count, body) == <<FirstLine(slots, count)>> \o body

\* ------------------------------------------------------------------------
\* State
\* ------------------------------------------------------------------------

VARIABLES
  args,          \* the parsed command line: seed, density, slots, percents, spread
  dirsExist,     \* whether main_dir and topologies_dir exist
  topologies,    \* os.listdir(topologies_dir) with each file's (n, m)
  oracle,        \* the pseudorandom streams: for each seed, the calls made
                 \* after seeding with it and what they returned
  hashOrder,     \* the iteration order of the three set(...) of this command line
  run,           \* 1: first run of the program; 2: the same command run again
  out1,          \* what the first run left behind
  pc,            \* position in __main__
  rng,           \* the random module: seed calls, last seed, draws since
  exitStatus, raised, stdout,
  fs,            \* instance files by name: the lines written so far
  dirs,          \* the directories made under (and including) instances_dir
  calls,         \* arguments of the calls to calculateMaxNumberOfDemands
  avaliable_S, max_percentages_of_slots_by_demand, spreads,
  pi, ti, ci,    \* how many percentages, topologies, (S, sp) pairs were taken
  percentage, top_name, n, m, S, sp, max_sd, nT, demand_f,
  remainingT, nD, lines,
  nDst           \* the fan-out of the last iteration before (cand) and after
                 \* (used) the two min()

inputs == <<args, dirsExist, topologies>>

sweepVars ==
  <<avaliable_S, max_percentages_of_slots_by_demand, spreads, pi, ti, ci,
    percentage, top_name, n, m, S, sp, max_sd, nT, demand_f>>

loopVars == <<remainingT, nD, lines, nDst>>

vars ==
  <<args, dirsExist, topologies, oracle, hashOrder, run, out1, pc, rng,
    exitStatus, raised, stdout, fs, dirs, calls,
    avaliable_S, max_percentages_of_slots_by_demand, spreads, pi, ti, ci,
    percentage, top_name, n, m, S, sp, max_sd, nT, demand_f,
    remainingT, nD, lines, nDst>>

\* ------------------------------------------------------------------------
\* Bounds and the inputs drawn within them
\* ------------------------------------------------------------------------

\* Largest node count of a topology in the main specification.
MaxNodes == 3

\* Largest slot count on the command line.
MaxSlots == 3

\* Largest sum of the budgets nT of the files of one sweep.
MaxTotalBudget == 2

Seeds == {1988}

\* density: 0 and 10 are outside (0, 10)
Densities == {Rat(0, 1), Rat(1, 2), Rat(2, 1), Rat(10, 1)}

\* slots: 0 is not positive; then 2..MaxSlots
SlotValues == <<0>> \o [k \in 1..(MaxSlots - 1) |-> k + 1]

\* percents: 0 and 1.5 are outside (0, 1]
PercentValues == <<Rat(0, 1), Rat(1, 2), Rat(1, 1), Rat(3, 2)>>

\* spread: 2 is outside (0, 1]; 0.9995 is within 0.001 of 1, 0.999 is not
SpreadValues == <<Rat(999, 1000), Rat(9995, 10000), Rat(1, 1), Rat(2, 1)>>

\* topologies: degenerate ones (n < 2) and every graph on 2..MaxNodes nodes
\* with at least one edge
TopologyValues ==
  {[name |-> "t", n |-> k, m |-> 0] : k \in {0, 1}}
  \cup {[name |-> "t", n |-> -1, m |-> 1]}
  \cup {[name |-> "t", n |-> k, m |-> e] :
          k \in 2..MaxNodes, e \in 1..((MaxNodes * (MaxNodes - 1)) \div 2)}

\* The lists of one or two values drawn from the sequence vs; the order of a
\* command-line list does not matter to the program (it takes set(...)), so
\* only one order is listed; a value may be given twice.
Lists(vs) ==
  {<<vs[i]>> : i \in 1..Len(vs)}
  \cup {<<vs[c[1]], vs[c[2]]>> :
          c \in {d \in (1..Len(vs)) \X (1..Len(vs)) : d[1] <= d[2]}}

\* os.listdir: one or two topology files, in either order
TopologyLists ==
  {<<t>> : t \in TopologyValues}
  \cup {<<t, [u EXCEPT !.name = "u"]>> : t \in TopologyValues, u \in TopologyValues}

\* The default density, and one plain value of each list.
RefDensity == Rat(2, 1)

RefSlots == <<2>>

RefPercents == <<Rat(1, 1)>>

RefSpread == <<Rat(999, 1000)>>

\* The inputs of a run.  Either every input is plain (off = {}): a valid
\* density, one valid value in each list, one topology with n >= 2, in every
\* combination.  Or one input is off the plain path, and can then be anything
\* (an invalid density, a list with an invalid or a second value, a
\* degenerate or a second topology, a missing directory), while the other
\* command-line values are the reference ones.
Inputs(off) ==
  [args : [seed : Seeds,
           density : IF "density" \in off THEN Densities
                     ELSE IF off = {} THEN {d \in Densities : DensityValid(d)}
                     ELSE {RefDensity},
           slots : IF "slots" \in off THEN Lists(SlotValues)
                   ELSE IF off = {}
                     THEN {q \in Lists(SlotValues) : Len(q) = 1 /\ SlotValid(q[1])}
                   ELSE {RefSlots},
           percents : IF "percents" \in off THEN Lists(PercentValues)
                      ELSE IF off = {}
                        THEN {q \in Lists(PercentValues) : Len(q) = 1 /\ PercentValid(q[1])}
                      ELSE {RefPercents},
           spread : IF "spread" \in off THEN Lists(SpreadValues)
                    ELSE IF off = {}
                      THEN {q \in Lists(SpreadValues) : Len(q) = 1 /\ SpreadValid(q[1])}
                    ELSE {RefSpread}],
   topologies : IF "topologies" \in off THEN TopologyLists
                ELSE {q \in TopologyLists : Len(q) = 1 /\ q[1].n >= 2},
   dirsExist : IF "dirs" \in off THEN BOOLEAN ELSE {TRUE}]

OffPlain == {{}, {"density"}, {"slots"}, {"percents"}, {"spread"}, {"topologies"}, {"dirs"}}

\* The budget of every file the sweep of this command line would open.
SweepBudgets(a, tops) ==
  {[p |-> p, t |-> t, S |-> k, sp |-> q,
    nT |-> IF DensityRaises(t.n) THEN 0
           ELSE Budget(calculateMaxNumberOfDemands(t.n, t.m, k, MaxSd(p, k)),
                       a.density)] :
     p \in {x \in Range(a.percents) : PercentValid(x)},
     t \in Range(tops),
     k \in {x \in Range(a.slots) : SlotValid(x)},
     q \in {x \in Range(a.spread) : SpreadValid(x)}}

RECURSIVE SumBudgets(_)
SumBudgets(B) ==
  IF B = {} THEN 0
  ELSE LET b == CHOOSE x \in B : TRUE IN b.nT + SumBudgets(B \ {b})

WithinBounds(a, tops) ==
  /\ \A i \in 1..Len(tops) : tops[i].m <= (tops[i].n * (tops[i].n - 1)) \div 2
                             \/ tops[i].n < 2
  /\ SumBudgets(SweepBudgets(a, tops)) <= MaxTotalBudget

NoRat == Rat(0, 1)

NoFile == InstanceFile(NoRat, "", 0, 0, 0, NoRat)

NoFiles == [f \in {} |-> <<>>]

NoOutput == [fs |-> NoFiles, stdout |-> <<>>, exitStatus |-> 0, raised |-> ""]

\* The program's own state when the interpreter starts __main__.
ProgInit ==
  /\ pc = "checkdirs"
  /\ rng = [seeded |-> 0, seed |-> 0, pos |-> 0]
  /\ exitStatus = 0 /\ raised = "" /\ stdout = <<>>
  /\ fs = NoFiles
  /\ dirs = {}
  /\ calls = <<>>
  /\ avaliable_S = <<>> /\ max_percentages_of_slots_by_demand = <<>>
  /\ spreads = <<>>
  /\ pi = 0 /\ ti = 0 /\ ci = 0
  /\ percentage = NoRat /\ top_name = "" /\ n = 0 /\ m = 0 /\ S = 0
  /\ sp = NoRat /\ max_sd = 0 /\ nT = 0 /\ demand_f = NoFile
  /\ remainingT = 0 /\ nD = 0 /\ lines = <<>>
  /\ nDst = [cand |-> 0, used |-> 0]

Init ==
  /\ \E off \in OffPlain : \E i \in Inputs(off) :
       /\ WithinBounds(i.args, i.topologies)
       /\ args = i.args
       /\ topologies = i.topologies
       /\ dirsExist = i.dirsExist
  /\ oracle = [k \in Seeds \cup {1, 2} |-> <<>>]
  /\ hashOrder = [set |-> FALSE, S |-> <<>>, p |-> <<>>, sp |-> <<>>]
  /\ run = 1
  /\ out1 = NoOutput
  /\ ProgInit

\* ------------------------------------------------------------------------
\* The random source
\* ------------------------------------------------------------------------

\* Variant: the generator is seeded with something that differs from run to
\* run (the time, the process id) instead of args.seed.
RngSeedArgPerRun(a, r) == r

\* random.seed(args.seed): the value the generator is seeded with
RngSeedArg(a, r) == a.seed

\* One call of the random module and its result.
Draw(call, res) == [call |-> call, res |-> res]

\* A generator seeded with the same value answers the same calls the same
\* way: where the stream of this seed is already known and the call at that
\* position is the same call, the result is the known one.
Replays(ds) ==
  LET st == oracle[rng.seed]
  IN  \A k \in 1..Len(ds) :
        (rng.pos + k <= Len(st) /\ st[rng.pos + k].call = ds[k].call)
          => st[rng.pos + k].res = ds[k].res

\* The stream of this seed once the draws ds were made at rng.pos.
Extended(ds) ==
  LET st == oracle[rng.seed]
  IN  IF rng.pos + Len(ds) <= Len(st) THEN st
      ELSE st \o SubSeq(ds, Len(st) - rng.pos + 1, Len(ds))

\* ------------------------------------------------------------------------
\* Actions
\* ------------------------------------------------------------------------

\* A call of calculateMaxNumberOfDemands: its arguments, whether it raised
\* ZeroDivisionError, and what it returned otherwise.
Call(nodes, edges, slots, msd) ==
  [n |-> nodes, m |-> edges, S |-> slots, max_sd |-> msd,
   raised |-> DensityRaises(nodes),
   ret |-> IF DensityRaises(nodes) THEN 0
           ELSE calculateMaxNumberOfDemands(nodes, edges, slots, msd)]

\* error(err): print("ERROR: ..."); exit(1)
error(err) ==
  /\ stdout' = Append(stdout, err)
  /\ exitStatus' = 1
  /\ pc' = "exit"
  /\ UNCHANGED raised

\* An exception nobody catches: traceback, exit status 1.
Raise(exc) ==
  /\ raised' = exc
  /\ exitStatus' = 1
  /\ pc' = "exit"
  /\ UNCHANGED stdout

Goto(label) ==
  /\ pc' = label
  /\ UNCHANGED <<exitStatus, raised, stdout>>

\* for d in [main_dir, topologies_dir]: if not os.path.exists(d): error(...)
CheckDirs ==
  /\ pc = "checkdirs"
  /\ IF dirsExist THEN Goto("seed") ELSE error("Directory not found.")
  /\ UNCHANGED <<inputs, oracle, hashOrder, run, out1, rng, fs, dirs, calls,
                 sweepVars, loopVars>>

\* random.seed(args.seed)
SeedRng ==
  /\ pc = "seed"
  /\ rng' = [seeded |-> rng.seeded + 1, seed |-> RngSeedArg(args, run), pos |-> 0]
  /\ Goto("density")
  /\ UNCHANGED <<inputs, oracle, hashOrder, run, out1, fs, dirs, calls,
                 sweepVars, loopVars>>

\* if not 0 < args.density < 10: error("Demands density must be in (0, 10)")
CheckDensity ==
  /\ pc = "density"
  /\ IF DensityValid(args.density) THEN Goto("filter")
     ELSE error("Demands density must be in (0, 10)")
  /\ UNCHANGED <<inputs, oracle, hashOrder, run, out1, rng, fs, dirs, calls,
                 sweepVars, loopVars>>

\* avaliable_S, max_percentages_of_slots_by_demand, spreads: the valid values
\* of each list, each once, in the iteration order of its set (the runs
\* modelled give -S, -p and -sp; the built-in default lists are not used);
\* os.makedirs(instances_dir)
FilterParams ==
  /\ pc = "filter"
  /\ \E ss \in Orders({k \in Range(args.slots) : SlotValid(k)}),
        ps \in Orders({p \in Range(args.percents) : PercentValid(p)}),
        qs \in Orders({q \in Range(args.spread) : SpreadValid(q)}) :
       /\ hashOrder.set => (ss = hashOrder.S /\ ps = hashOrder.p /\ qs = hashOrder.sp)
       /\ hashOrder' = [set |-> TRUE, S |-> ss, p |-> ps, sp |-> qs]
       /\ avaliable_S' = ss
       /\ max_percentages_of_slots_by_demand' = ps
       /\ spreads' = qs
  /\ dirs' = dirs \cup {InstancesDir}
  /\ pi' = 0
  /\ Goto("percentage")
  /\ UNCHANGED <<inputs, oracle, run, out1, rng, fs, calls, ti, ci,
                 percentage, top_name, n, m, S, sp, max_sd, nT, demand_f,
                 loopVars>>

\* for percentage in max_percentages_of_slots_by_demand: ...; after the last
\* one the script ends
NextPercentage ==
  /\ pc = "percentage"
  /\ IF pi < Len(max_percentages_of_slots_by_demand)
       THEN /\ pi' = pi + 1
            /\ percentage' = max_percentages_of_slots_by_demand[pi + 1]
            /\ dirs' = dirs \cup {Directory(PercentageDir(percentage'), "")}
            /\ ti' = 0
            /\ Goto("topology")
       ELSE /\ pc' = "exit"
            /\ exitStatus' = 0
            /\ UNCHANGED <<raised, stdout, pi, percentage, ti, dirs>>
  /\ UNCHANGED <<inputs, oracle, hashOrder, run, out1, rng, fs, calls,
                 avaliable_S, max_percentages_of_slots_by_demand, spreads, ci,
                 top_name, n, m, S, sp, max_sd, nT, demand_f, loopVars>>

\* for top_fname in os.listdir(topologies_dir): n, m = readTopologyData(...)
NextTopology ==
  /\ pc = "topology"
  /\ IF ti < Len(topologies)
       THEN /\ ti' = ti + 1
            /\ top_name' = topologies[ti + 1].name
            /\ n' = topologies[ti + 1].n
            /\ m' = topologies[ti + 1].m
            /\ dirs' = dirs \cup {Directory(PercentageDir(percentage), top_name')}
            /\ ci' = 0
            /\ Goto("combo")
       ELSE /\ Goto("percentage")
            /\ UNCHANGED <<ti, top_name, n, m, ci, dirs>>
  /\ UNCHANGED <<inputs, oracle, hashOrder, run, out1, rng, fs, calls,
                 avaliable_S, max_percentages_of_slots_by_demand, spreads, pi,
                 percentage, S, sp, max_sd, nT, demand_f, loopVars>>

\* for S, sp in [...]: max_sd, nT, demand_f; open(demand_f, 'w') and the
\* header; remainingT = nT; lines = []; nD = 0
NextCombo ==
  /\ pc = "combo"
  /\ IF ci < Len(Combos(avaliable_S, spreads))
       THEN /\ ci' = ci + 1
            /\ S' = Combos(avaliable_S, spreads)[ci + 1].S
            /\ sp' = Combos(avaliable_S, spreads)[ci + 1].sp
            /\ max_sd' = MaxSd(percentage, S')
            /\ calls' = Append(calls, Call(n, m, S', max_sd'))
            /\ IF calls'[Len(calls')].raised
                 THEN /\ Raise("ZeroDivisionError")
                      /\ UNCHANGED <<nT, demand_f, fs, remainingT, nD, lines>>
                 ELSE /\ nT' = Budget(calls'[Len(calls')].ret, args.density)
                      /\ demand_f' = InstanceFile(percentage, top_name, S', max_sd',
                                                  nT', sp')
                      /\ fs' = (demand_f' :> Header(args.seed)) @@ fs
                      /\ remainingT' = nT'
                      /\ lines' = <<>>
                      /\ nD' = 0
                      /\ Goto("loop")
       ELSE /\ Goto("topology")
            /\ UNCHANGED <<ci, S, sp, max_sd, calls, nT, demand_f, fs,
                           remainingT, nD, lines>>
  /\ UNCHANGED <<inputs, oracle, hashOrder, run, out1, rng, dirs,
                 avaliable_S, max_percentages_of_slots_by_demand, spreads, pi, ti,
                 percentage, top_name, n, m, nDst>>

\* One iteration of while remainingT > 0
LoopIter ==
  /\ pc = "loop"
  /\ remainingT > 0
  /\ IF n <= 0
       THEN \* random.sample(range(n), 1): sample larger than population
            /\ Raise("ValueError")
            /\ UNCHANGED <<oracle, rng, loopVars>>
       ELSE \E src \in 0..(n - 1),
               cand \in (IF FanOutTaken(sp) THEN FanOutCandidates(sp) ELSE {1}),
               raw \in SlotDraws(max_sd) :
              LET used == ClampFanOut(remainingT, cand, n)
              IN  \E dsts \in Samples(Population(n, src), used) :
                    LET ds == <<Draw(<<"sample", n, 1>>, <<src>>)>>
                              \o (IF FanOutTaken(sp)
                                    THEN <<Draw(<<"uniform", sp.num, sp.den>>, <<cand>>)>>
                                    ELSE <<>>)
                              \o <<Draw(<<"sample", n, src, used>>, dsts),
                                   Draw(<<"randint", max_sd \div 2, max_sd>>, <<raw>>)>>
                    IN  /\ Replays(ds)
                        /\ oracle' = [oracle EXCEPT ![rng.seed] = Extended(ds)]
                        /\ rng' = [rng EXCEPT !.pos = @ + Len(ds)]
                        /\ nD' = nD + 1
                        /\ nDst' = [cand |-> cand, used |-> used]
                        /\ remainingT' = Decrement(remainingT, used)
                        /\ lines' = Append(lines, DemandLine(src, used, dsts, SlotOf(raw)))
                        /\ Goto("loop")
  /\ UNCHANGED <<inputs, hashOrder, run, out1, fs, dirs, calls, sweepVars>>

\* After the loop: the first data line, then the demand lines; the file is
\* closed
WriteFile ==
  /\ pc = "loop"
  /\ remainingT <= 0
  /\ fs' = [fs EXCEPT ![demand_f] = @ \o FileBody(S, nD, lines)]
  /\ Goto("combo")
  /\ UNCHANGED <<inputs, oracle, hashOrder, run, out1, rng, dirs, calls,
                 sweepVars, loopVars>>

Next ==
  \/ CheckDirs
  \/ SeedRng
  \/ CheckDensity
  \/ FilterParams
  \/ NextPercentage
  \/ NextTopology
  \/ NextCombo
  \/ LoopIter
  \/ WriteFile

Spec == Init /\ [][Next]_vars

\* ------------------------------------------------------------------------
\* Two runs of the same command line
\* ------------------------------------------------------------------------

\* The same command line is run a second time, on the same topologies, into
\* an empty instances directory.
Rerun ==
  /\ pc = "exit"
  /\ run = 1
  /\ run' = 2
  /\ out1' = [fs |-> fs, stdout |-> stdout, exitStatus |-> exitStatus,
              raised |-> raised]
  /\ pc' = "checkdirs"
  /\ rng' = [seeded |-> 0, seed |-> 0, pos |-> 0]
  /\ exitStatus' = 0 /\ raised' = "" /\ stdout' = <<>>
  /\ fs' = NoFiles
  /\ dirs' = {}
  /\ calls' = <<>>
  /\ avaliable_S' = <<>> /\ max_percentages_of_slots_by_demand' = <<>>
  /\ spreads' = <<>>
  /\ pi' = 0 /\ ti' = 0 /\ ci' = 0
  /\ percentage' = NoRat /\ top_name' = "" /\ n' = 0 /\ m' = 0 /\ S' = 0
  /\ sp' = NoRat /\ max_sd' = 0 /\ nT' = 0 /\ demand_f' = NoFile
  /\ remainingT' = 0 /\ nD' = 0 /\ lines' = <<>>
  /\ nDst' = [cand |-> 0, used |-> 0]
  /\ UNCHANGED <<inputs, oracle, hashOrder>>

\* The runs that are repeated: the reference command line with any list of
\* slots, of spreads, or of topologies.
OffPlainTwice == {{"slots"}, {"spread"}, {"topologies"}}

InitTwice ==
  /\ \E off \in OffPlainTwice : \E i \in Inputs(off) :
       /\ WithinBounds(i.args, i.topologies)
       /\ args = i.args
       /\ topologies = i.topologies
       /\ dirsExist = i.dirsExist
  /\ oracle = [k \in Seeds \cup {1, 2} |-> <<>>]
  /\ hashOrder = [set |-> FALSE, S |-> <<>>, p |-> <<>>, sp |-> <<>>]
  /\ run = 1
  /\ out1 = NoOutput
  /\ ProgInit

NextTwice == Next \/ Rerun

SpecTwice == InitTwice /\ [][NextTwice]_vars

\* ------------------------------------------------------------------------
\* The sizing estimator on its own: the inputs are drawn from bounded sets
\* and the caller's two lines (184, 185) are applied to them
\* ------------------------------------------------------------------------

\* Largest node count and slot count given to the estimator.
MaxEstNodes == 6

MaxEstSlots == 9

InitEst ==
  /\ args \in [seed : Seeds, density : {d \in Densities : DensityValid(d)},
               slots : {<<>>}, percents : {<<>>}, spread : {<<>>}]
  /\ topologies = <<>>
  /\ dirsExist = TRUE
  /\ oracle = [k \in Seeds \cup {1, 2} |-> <<>>]
  /\ hashOrder = [set |-> FALSE, S |-> <<>>, p |-> <<>>, sp |-> <<>>]
  /\ run = 1
  /\ out1 = NoOutput
  /\ pc = "estimate"
  /\ rng = [seeded |-> 0, seed |-> 0, pos |-> 0]
  /\ exitStatus = 0 /\ raised = "" /\ stdout = <<>>
  /\ fs = NoFiles
  /\ dirs = {}
  /\ calls = <<>>
  /\ avaliable_S = <<>> /\ max_percentages_of_slots_by_demand = <<>>
  /\ spreads = <<>>
  /\ pi = 0 /\ ti = 0 /\ ci = 0
  /\ percentage = NoRat /\ top_name = ""
  /\ n \in 2..MaxEstNodes
  /\ m \in 0..((n * (n - 1)) \div 2)
  /\ S \in 1..MaxEstSlots
  /\ max_sd \in 1..S
  /\ sp = NoRat /\ nT = 0 /\ demand_f = NoFile
  /\ remainingT = 0 /\ nD = 0 /\ lines = <<>>
  /\ nDst = [cand |-> 0, used |-> 0]

\* nT = calculateMaxNumberOfDemands(n, m, S, max_sd)
\* nT = int(max(1, nT * args.density))
Estimate ==
  /\ pc = "estimate"
  /\ calls' = Append(calls, Call(n, m, S, max_sd))
  /\ nT' = Budget(calls'[Len(calls')].ret, args.density)
  /\ Goto("estimated")
  /\ UNCHANGED <<inputs, oracle, hashOrder, run, out1, rng, fs, dirs,
                 avaliable_S, max_percentages_of_slots_by_demand, spreads,
                 pi, ti, ci, percentage, top_name, n, m, S, sp, max_sd,
                 demand_f, loopVars>>

NextEst == Estimate

SpecEst == InitEst /\ [][NextEst]_vars

\* ------------------------------------------------------------------------
\* Properties
\* ------------------------------------------------------------------------

\* The fields of a demand line
LineSrc(l) == l.fields[1]

LineCount(l) == l.fields[2]

LineDsts(l) == SubSeq(l.fields, 3, Len(l.fields) - 1)

LineSlots(l) == l.fields[Len(l.fields)]

DemandLines(c) == {c[j] : j \in {i \in 1..Len(c) : c[i].kind = "demand"}}

RECURSIVE SumCounts(_)
\* Sum of the destination counts of a sequence of lines
SumCounts(c) ==
  IF c = <<>> THEN 0
  ELSE (IF c[1].kind = "demand" THEN LineCount(c[1]) ELSE 0) + SumCounts(Tail(c))

\* The node count of the topology a file was generated for
NodesOf(f) == (CHOOSE t \in Range(topologies) : t.name = f.top).n

\* A file is complete once its first data line is written.
Complete(f) == Len(fs[f]) > Len(Header(0))

\* C1: for n >= 2 every iteration of the allocation loop decreases remainingT
\* by at least 1 (and emits one record); the iterations made so far never
\* exceed nT, and the loop is left as soon as remainingT is not positive.
C1_LoopDecreases ==
  [][(pc = "loop" /\ n >= 2)
       => /\ nD <= nT
          /\ remainingT > 0 =>
               (pc' = "loop" /\ remainingT' <= remainingT - 1 /\ nD' = nD + 1)
          /\ remainingT <= 0 => pc' = "combo"]_vars

\* The loop has run nT >= 2 iterations and exhausted the budget.
C1_Witness ==
  pc = "loop" /\ n >= 2 /\ nT >= 2 /\ nD = nT /\ remainingT = 0

\* C2: for n >= 2 no iteration claims more destinations than the budget that
\* remained at its start, so remainingT never drops below 0 and the counts
\* of the records emitted never sum to more than nT; an iteration that
\* starts with remainingT = 1 emits nDst = 1 whatever fan-out was sampled.
C2_NeverOverConsumed ==
  [][(pc = "loop" /\ n >= 2 /\ remainingT > 0)
       => /\ nDst'.used <= remainingT
          /\ remainingT' >= 0
          /\ SumCounts(lines') <= nT
          /\ LineCount(lines'[Len(lines')]) = nDst'.used
          /\ remainingT = 1 => nDst'.used = 1]_vars

\* An iteration on three nodes started with remainingT = 1, sampled a larger
\* fan-out, and emitted one destination.
C2_Witness ==
  /\ pc = "loop" /\ n >= 3 /\ nD >= 1 /\ remainingT = 0
  /\ nDst.cand = 2 /\ nDst.used = 1

\* A demand line is well-formed for a topology of `nodes` nodes and a slot
\* limit msd.
WellFormed(l, nodes, msd) ==
  /\ Len(l.fields) = LineCount(l) + 3
  /\ LineSrc(l) \in 0..(nodes - 1)
  /\ LineCount(l) >= 1 /\ LineCount(l) <= nodes - 1
  /\ \A i \in 1..LineCount(l) :
       /\ LineDsts(l)[i] \in 0..(nodes - 1)
       /\ LineDsts(l)[i] # LineSrc(l)
       /\ \A j \in 1..LineCount(l) : i # j => LineDsts(l)[i] # LineDsts(l)[j]
  /\ LineSlots(l) >= 1 /\ LineSlots(l) <= msd

\* C3: every demand record, in the list being built and in every file, has a
\* source in 0..n-1 that is not a destination, pairwise distinct destinations
\* in 0..n-1, between 1 and n-1 of them, as many as its nDst field says, and
\* 1 <= slots <= max_sd.
C3_RecordsWellFormed ==
  /\ pc = "loop" => \A i \in 1..Len(lines) : WellFormed(lines[i], n, max_sd)
  /\ \A f \in DOMAIN fs : \A l \in DemandLines(fs[f]) :
       WellFormed(l, NodesOf(f), f.max_sd)

\* A file holds a record with two destinations.
C3_Witness ==
  \E f \in DOMAIN fs : \E l \in DemandLines(fs[f]) : LineCount(l) = 2

\* C4: in every file the six header comments come first; the first data line
\* follows them, before every demand line, and carries S and the number of
\* demand lines after it, which is at most nT; a file without its first data
\* line is the one being generated (or the one a crash left behind).
C4_FirstLineCountsRecords ==
  \A f \in DOMAIN fs :
    LET c == fs[f]
    IN  /\ Len(c) >= 6
        /\ \A i \in 1..6 : c[i].kind = "comment"
        /\ Len(c) > 6 =>
             /\ c[7] = FirstLine(f.S, Len(c) - 7)
             /\ c[7].fields[2] <= f.nT
             /\ \A i \in 8..Len(c) : c[i].kind = "demand"
        /\ Len(c) = 6 => (f = demand_f /\ (pc = "loop" \/ raised # ""))

\* A complete file with two demand lines.
C4_Witness ==
  \E f \in DOMAIN fs : Len(fs[f]) = 9 /\ fs[f][7].fields[2] = 2 /\ pc # "loop"

\* C5: for valid inputs calculateMaxNumberOfDemands returns
\* floor((n-1) * (2m/(n(n-1))) * S / max_sd) >= 0, the budget is
\* max(1, floor(estimate * density_factor)) >= 1, and for n=4, m=3, S=10,
\* max_sd=5, density_factor=2.0 the estimate is 3 and the budget 6.
C5_EstimateIsFloor ==
  /\ pc = "estimated" =>
       /\ calls[1].ret = ((n - 1) * 2 * m * S) \div (n * (n - 1) * max_sd)
       /\ calls[1].ret >= 0
       /\ nT = Max(1, (calls[1].ret * args.density.num) \div args.density.den)
       /\ nT >= 1
  /\ calculateMaxNumberOfDemands(4, 3, 10, 5) = 3
  /\ Budget(calculateMaxNumberOfDemands(4, 3, 10, 5), Rat(2, 1)) = 6

\* The ranges the specification gives: (0, 10) for the density, positive
\* slot counts, (0, 1] for percentages and spreads.
InDensityRange(d) == d.num > 0 /\ d.num < 10 * d.den

Positive(k) == k >= 1

InUnitInterval(q) == q.num > 0 /\ q.num <= q.den

\* 1/spread - 1 <= 0.001
SpreadNearOne(q) == 1000 * (q.den - q.num) <= q.num

\* The command line has a parameter the specification calls invalid.
InvalidParameter ==
  \/ ~InDensityRange(args.density)
  \/ \E k \in Range(args.slots) : ~Positive(k)
  \/ \E p \in Range(args.percents) : ~InUnitInterval(p)
  \/ \E q \in Range(args.spread) : ~InUnitInterval(q)

\* C6 as stated: with any invalid parameter no instance file is written and
\* the run ends with an error report and a nonzero exit status.
C6_InvalidRejected ==
  (dirsExist /\ InvalidParameter)
    => /\ fs = NoFiles
       /\ pc = "exit" => (exitStatus # 0 /\ stdout # <<>>)

\* C6 amended: a density outside (0, 10) is rejected before generation (the
\* error is reported, the exit status is 1, the estimator is never called and
\* no file is written); invalid slot counts, percentages and spreads are
\* dropped without a report, no file is written for a dropped value, and the
\* sweep over the remaining values runs to its normal end.
C6_DensityRejectedOthersDropped ==
  /\ (dirsExist /\ ~InDensityRange(args.density))
       => /\ fs = NoFiles /\ calls = <<>>
          /\ pc = "exit" =>
               (exitStatus = 1 /\ raised = ""
                /\ stdout = <<"Demands density must be in (0, 10)">>)
  /\ (dirsExist /\ InDensityRange(args.density)) => stdout = <<>>
  /\ \A f \in DOMAIN fs :
       /\ f.S \in Range(args.slots) /\ Positive(f.S)
       /\ f.sp \in Range(args.spread) /\ InUnitInterval(f.sp)
       /\ \E p \in Range(args.percents) :
            InUnitInterval(p) /\ PercentageDir(p) = f.dir
  /\ (pc = "exit" /\ dirsExist /\ InDensityRange(args.density) /\ raised = "")
       => /\ exitStatus = 0
          /\ \A k \in Range(args.slots), q \in Range(args.spread),
                p \in Range(args.percents), t \in Range(topologies) :
               (Positive(k) /\ InUnitInterval(q) /\ InUnitInterval(p))
                 => \E f \in DOMAIN fs :
                      /\ f.S = k /\ f.sp = q /\ f.dir = PercentageDir(p)
                      /\ f.top = t.name /\ Complete(f)

\* A run given an invalid and a valid value in one list has ended normally
\* with a file for the valid one.
C6_Witness ==
  /\ pc = "exit" /\ exitStatus = 0 /\ InvalidParameter
  /\ \E f \in DOMAIN fs : Complete(f)

\* C7: for a topology with n < 2 neither calculateMaxNumberOfDemands nor the
\* allocation loop runs, and no file is created for it.
C7_DegenerateRejected ==
  /\ \A i \in 1..Len(calls) : calls[i].n >= 2
  /\ pc = "loop" => n >= 2
  /\ \A f \in DOMAIN fs : NodesOf(f) >= 2

\* The order of the draws of one stream: a source, then a fan-out only for a
\* spread below 1, then the destinations, then the slots.
IsSourceDraw(d) == d.call[1] = "sample" /\ Len(d.call) = 3

IsDestDraw(d) == d.call[1] = "sample" /\ Len(d.call) = 4

DrawOrder(st) ==
  \A k \in 1..Len(st) :
    /\ IsSourceDraw(st[k]) => (k = 1 \/ st[k - 1].call[1] = "randint")
    /\ st[k].call[1] = "uniform" =>
         (k > 1 /\ IsSourceDraw(st[k - 1])
          /\ ~SpreadNearOne(Rat(st[k].call[2], st[k].call[3])))
    /\ IsDestDraw(st[k]) =>
         (k > 1 /\ (IsSourceDraw(st[k - 1]) \/ st[k - 1].call[1] = "uniform"))
    /\ st[k].call[1] = "randint" => (k > 1 /\ IsDestDraw(st[k - 1]))

\* C8: the generator is seeded once, with args.seed, before any draw, and
\* never again; the draws come in a fixed order; and a second run of the same
\* command on the same topologies leaves the same files, the same output and
\* the same exit status as the first.
C8_Deterministic ==
  /\ pc \in {"checkdirs", "seed"} => (rng.seeded = 0 /\ rng.pos = 0)
  /\ pc \notin {"checkdirs", "seed"} => (rng.seeded = 1 /\ rng.seed = args.seed)
  /\ \A k \in DOMAIN oracle : DrawOrder(oracle[k])
  /\ (run = 2 /\ pc = "exit")
       => /\ fs = out1.fs
          /\ stdout = out1.stdout
          /\ exitStatus = out1.exitStatus
          /\ raised = out1.raised

\* The second run has ended after writing two files, as the first did.
C8_Witness ==
  /\ run = 2 /\ pc = "exit" /\ exitStatus = 0
  /\ Cardinality(DOMAIN fs) = 2
  /\ \A f \in DOMAIN fs : Complete(f)
  /\ rng.pos >= 7

\* C9: when 1/spread - 1 <= 0.001 no fan-out is drawn from the random source
\* and every record has exactly one destination.
C9_SpreadOneSingleDestination ==
  /\ \A k \in DOMAIN oracle : \A i \in 1..Len(oracle[k]) :
       oracle[k][i].call[1] = "uniform"
         => ~SpreadNearOne(Rat(oracle[k][i].call[2], oracle[k][i].call[3]))
  /\ (pc = "loop" /\ n >= 2 /\ SpreadNearOne(sp))
       => /\ \A i \in 1..Len(lines) : LineCount(lines[i]) = 1
          /\ nD >= 1 => (nDst.cand = 1 /\ nDst.used = 1)
  /\ \A f \in DOMAIN fs :
       SpreadNearOne(f.sp) => \A l \in DemandLines(fs[f]) : LineCount(l) = 1

\* A complete file for spread 1.0 on three nodes with two records.
C9_Witness ==
  \E f \in DOMAIN fs :
    /\ f.sp = Rat(1, 1) /\ NodesOf(f) = 3 /\ f.nT = 2
    /\ Len(fs[f]) = 9

\* C10: for n >= 2, remainingT plus the destination counts of the records
\* emitted so far is nT; the loop is left with remainingT = 0 exactly; the
\* destination counts of a complete file sum to the nT of its name.
C10_BudgetConserved ==
  /\ (pc = "loop" /\ n >= 2) => remainingT + SumCounts(lines) = nT
  /\ (pc # "loop" /\ raised # "ValueError") => remainingT = 0
  /\ \A f \in DOMAIN fs : Complete(f) => SumCounts(fs[f]) = f.nT

\* A complete file with a budget of 2 spent on one record of two
\* destinations.
C10_Witness ==
  \E f \in DOMAIN fs :
    /\ f.nT = 2 /\ Len(fs[f]) = 8
    /\ LineCount(fs[f][8]) = 2

====
